---- MODULE Spec2Model ----
(***************************************************************************)
(* A model of discord_http/user.py: PartialUser, User and UserClient, the  *)
(* requests their coroutines issue through the collaborator's query(), and *)
(* the parsing of server records into instances.                           *)
(***************************************************************************)
EXTENDS Integers, Sequences, FiniteSets, TLC

VARIABLES
    objs,   \* the live instances, in order of construction
    born,   \* per instance: its fields when constructed and the record parsed
    calls,  \* the coroutine calls: arguments, position, own request log, outcome
    tasks   \* the deferred deletions spawned by send(delete_after=...)

vars == <<objs, born, calls, tasks>>

(***************************************************************************)
(* Python values.  Every value has the same shape so that values of        *)
(* different Python types can be compared: t is the type, s the text of an *)
(* opaque string, n a number, q the characters or bytes of a string whose  *)
(* content matters (digits, base64 text, raw bytes).                       *)
(***************************************************************************)
Val(t, s, n, q) == [t |-> t, s |-> s, n |-> n, q |-> q]

MISSING == Val("MISSING", "", 0, <<>>)
None == Val("None", "", 0, <<>>)
StrV(x) == Val("str", x, 0, <<>>)
StrOf(chars) == Val("str", "", 0, chars)
IntV(k) == Val("int", "", k, <<>>)
FloatV(k) == Val("float", "", k, <<>>)
BoolV(b) == Val("bool", "", IF b THEN 1 ELSE 0, <<>>)
BytesV(b) == Val("bytes", "", 0, b)
DictV(size) == Val("dict", "clan", size, <<>>)

\* Python truth value testing, as used by `if data.get(...)` and by `or`.
Truthy(v) ==
    CASE v.t = "None" -> FALSE
      [] v.t = "str" -> v.s # "" \/ v.q # <<>>
      [] v.t = "bytes" -> v.q # <<>>
      [] v.t \in {"int", "float", "bool"} -> v.n # 0
      [] v.t = "dict" -> v.n # 0
      [] OTHER -> TRUE

\* dict.get(key, default)
Get(data, key, default) == IF key \in DOMAIN data THEN data[key] ELSE default

\* int(s) of a string of decimal digits (q holds the digits), or of an int.
RECURSIVE DigitsValue(_)
DigitsValue(ds) ==
    IF ds = <<>> THEN 0
    ELSE 10 * DigitsValue(SubSeq(ds, 1, Len(ds) - 1)) + ds[Len(ds)]

int(v) == IF v.t = "str" THEN DigitsValue(v.q) ELSE v.n

\* float(x) of a number
float(v) == FloatV(v.n)

(***************************************************************************)
(* Instances.                                                              *)
(***************************************************************************)
PartialUserInit(id) == [cls |-> "PartialUser", id |-> int(id)]

\* Mutant: the "0" discriminator is kept.
discriminator_of_Raw(data) == Get(data, "discriminator", None)

\* data.get("discriminator", None), with "0" turned into None
discriminator_of(data) ==
    LET d == Get(data, "discriminator", None)
    IN  IF d = StrV("0") THEN None ELSE d

global_name_of(data) == Get(data, "global_name", None)

clan_of(data) == Get(data, "clan", None)

\* Mutant: a key counts as soon as it is present.
Populated_Present(data, key) == key \in DOMAIN data

\* `if data.get(key, None):`
Populated(data, key) == Truthy(Get(data, key, None))

_from_data(self, data) ==
    [self EXCEPT
        !.avatar = IF Populated(data, "avatar")
                   THEN Val("Asset.avatar", data["avatar"].s, self.id, <<>>)
                   ELSE @,
        !.banner = IF Populated(data, "banner")
                   THEN Val("Asset.banner", data["banner"].s, self.id, <<>>)
                   ELSE @,
        !.accent_colour = IF Populated(data, "accent_color")
                          THEN Val("Colour", "", data["accent_color"].n, <<>>)
                          ELSE @,
        !.banner_colour = IF Populated(data, "banner_color")
                          THEN Val("Colour.from_hex", data["banner_color"].s, 0, <<>>)
                          ELSE @,
        !.avatar_decoration =
                   IF Populated(data, "avatar_decoration")
                   THEN Val("Asset.avatar_decoration",
                            data["avatar_decoration"].s, 0, <<>>)
                   ELSE @,
        !.public_flags = IF Populated(data, "public_flags")
                         THEN Val("UserFlags", "", data["public_flags"].n, <<>>)
                         ELSE @]

UserInit(data) ==
    _from_data(
        [cls |-> "User",
         id |-> PartialUserInit(IntV(int(data["id"]))).id,
         avatar |-> None,
         banner |-> None,
         name |-> data["username"],
         bot |-> Get(data, "bot", BoolV(FALSE)),
         system |-> Get(data, "system", BoolV(FALSE)),
         discriminator |-> discriminator_of(data),
         accent_colour |-> None,
         banner_colour |-> None,
         avatar_decoration |-> None,
         global_name |-> global_name_of(data),
         public_flags |-> None,
         clan |-> clan_of(data)],
        data)

UserClientInit(data) ==
    [UserInit(data) EXCEPT !.cls = "UserClient"]
        @@ [verified |-> Get(data, "verified", BoolV(FALSE))]

\* Mutant: the operands of `or` are swapped.
display_name_Swapped(self) ==
    IF Truthy(self.name) THEN self.name ELSE self.global_name

\* self.global_name or self.name
display_name(self) ==
    IF Truthy(self.global_name) THEN self.global_name ELSE self.name

(***************************************************************************)
(* Base64 of a byte string.  Characters are the indices 0..63 into the     *)
(* base64 alphabet; Pad is "=".                                            *)
(***************************************************************************)
Pad == 64

RECURSIVE B64Encode(_)
B64Encode(b) ==
    IF Len(b) = 0 THEN <<>>
    ELSE IF Len(b) = 1 THEN
        LET n == b[1] * 65536
        IN  <<n \div 262144, (n \div 4096) % 64, Pad, Pad>>
    ELSE IF Len(b) = 2 THEN
        LET n == b[1] * 65536 + b[2] * 256
        IN  <<n \div 262144, (n \div 4096) % 64, (n \div 64) % 64, Pad>>
    ELSE
        LET n == b[1] * 65536 + b[2] * 256 + b[3]
        IN  <<n \div 262144, (n \div 4096) % 64, (n \div 64) % 64, n % 64>>
                \o B64Encode(SubSeq(b, 4, Len(b)))

RECURSIVE B64Decode(_)
B64Decode(c) ==
    IF Len(c) < 4 THEN <<>>
    ELSE
        LET sx(i) == IF c[i] = Pad THEN 0 ELSE c[i]
            n == sx(1) * 262144 + sx(2) * 4096 + sx(3) * 64 + sx(4)
            three == <<n \div 65536, (n \div 256) % 256, n % 256>>
            keep == IF c[3] = Pad THEN 1 ELSE IF c[4] = Pad THEN 2 ELSE 3
        IN  SubSeq(three, 1, keep) \o B64Decode(SubSeq(c, 5, Len(c)))

\* utils.bytes_to_base64(image)
bytes_to_base64(image) == StrOf(B64Encode(image.q))

(***************************************************************************)
(* Requests.  Each call keeps the log of what it asked of query() and what *)
(* came back, in order.                                                    *)
(***************************************************************************)
EmptyDict == [k \in {} |-> None]

Ev(ev, method, route, target, body, resp, err) ==
    [ev |-> ev, method |-> method, route |-> route, target |-> target,
     body |-> body, resp |-> resp, err |-> err]

Req(method, route, target, body) ==
    Ev("req", method, route, target, body, EmptyDict, "")
Ok(resp) == Ev("ok", "", "", None, EmptyDict, resp, "")
Fail(err) == Ev("fail", "", "", None, EmptyDict, EmptyDict, err)

NoRet == Val("no return", "", 0, <<>>)

\* DMChannel(state=..., data=r.response): its id
DMChannelInit(data) == Val("DMChannel", "", int(data["id"]), <<>>)

\* Message(state=..., data=r.response): its id and its channel's id
MessageInit(data) ==
    Val("Message", "", int(data["id"]), <<int(data["channel_id"])>>)

\* A call as it starts: the arguments, the local channel_id, nothing returned.
NewCall(op, o, args) ==
    [op |-> op, self |-> o, args |-> args, pc |-> "start",
     channel_id |-> args.channel_id, log |-> <<>>, ret |-> NoRet, error |-> ""]

Args(channel_id, delete_after, username, avatar, banner) ==
    [channel_id |-> channel_id, delete_after |-> delete_after,
     username |-> username, avatar |-> avatar, banner |-> banner]

NoArgs == Args(MISSING, None, MISSING, MISSING, MISSING)

\* Mutant: the test is written against None instead of the MISSING sentinel.
NeedsDm_None(channel_id) == channel_id = None

\* `if channel_id is MISSING`
NeedsDm(channel_id) == channel_id = MISSING

\* create_dm's query
DmRequest(self) ==
    Req("POST", "/users/@me/channels", None, [recipient_id |-> IntV(self.id)])

\* send's query, to f"/channels/{channel_id}/messages"
MessageRequest(channel_id) ==
    Req("POST", "/channels/{channel_id}/messages", channel_id, EmptyDict)

\* fetch's query, to f"/users/{self.id}"
FetchRequest(self) == Req("GET", "/users/{id}", IntV(self.id), EmptyDict)

\* Mutant: an explicit None is treated like an argument that was not given.
EditPayload_NoneOmitted(username, avatar, banner) ==
    LET given == [username |-> username, avatar |-> avatar, banner |-> banner]
    IN  [k \in {f \in {"username", "avatar", "banner"} :
                    given[f] # MISSING /\ given[f] # None} |->
            IF k = "username" THEN username ELSE bytes_to_base64(given[k])]

\* edit's payload
EditPayload(username, avatar, banner) ==
    LET given == [username |-> username, avatar |-> avatar, banner |-> banner]
        image(v) == IF v # None THEN bytes_to_base64(v) ELSE None
    IN  [k \in {f \in {"username", "avatar", "banner"} : given[f] # MISSING} |->
            IF k = "username" THEN username ELSE image(given[k])]

EditRequest(payload) == Req("PATCH", "/users/@me", None, payload)

\* Mutant: the exception is caught and re-raised as another error.
Raise_Wrapped(call, err) ==
    [call EXCEPT !.pc = "raised", !.error = "SendFailed",
                 !.log = Append(@, Fail(err))]

\* An exception raised by an awaited query leaves the coroutine as it is.
Raise(call, err) ==
    [call EXCEPT !.pc = "raised", !.error = err, !.log = Append(@, Fail(err))]

\* Mutant: edit returns a copy of the receiver patched with the arguments.
EditResult_Patched(self, payload, resp) ==
    [self EXCEPT !.name = IF "username" \in DOMAIN payload
                          THEN payload["username"] ELSE @]

\* What edit returns: UserClient(state=self._state, data=r.response)
EditResult(self, payload, resp) == UserClientInit(resp)

\* Mutant: the receiver is refreshed in place from the record that came back.
Receiver_Refreshed(self, made) == [self EXCEPT !.id = made.id]

\* The receiver once a call on it has returned: no method assigns to self.
Receiver(self, made) == self

(***************************************************************************)
(* Message.delete(delay=...): the deletion is handed to a task of its own, *)
(* which sleeps, asks for the deletion and keeps a failure to itself.      *)
(***************************************************************************)
\* Mutant: the deletion is awaited in the caller instead of being spawned.
MessageDelete_Inline(c, msg, delay) == [spawn |-> <<>>, blocks |-> TRUE]

MessageDelete(c, msg, delay) ==
    [spawn |-> <<[call |-> c, msg |-> msg, delay |-> delay,
                  st |-> "sleeping", log |-> <<>>]>>,
     blocks |-> FALSE]

\* Mutant: the failure of the deletion reaches the caller of send.
DeleteFailed_Surfaced(call, err) ==
    [call EXCEPT !.pc = "raised", !.error = err, !.ret = NoRet]

DeleteFailed(call, err) == call

DeleteRequest(msg) ==
    Req("DELETE", "/channels/{channel_id}/messages/{id}", IntV(msg.n), EmptyDict)

(***************************************************************************)
(* The inputs: the arguments callers pass and what the collaborator        *)
(* answers.                                                                *)
(***************************************************************************)
MaxCalls == 2

ChannelIdArgs == {MISSING, None, IntV(7)}
DeleteAfterArgs == {None, IntV(2)}
Errors == {"Forbidden", "NotFound"}

RECURSIVE Digits(_)
Digits(n) == IF n < 10 THEN <<n>> ELSE Digits(n \div 10) \o <<n % 10>>

DmResponses == {[id |-> StrOf(<<4, 2>>), type |-> IntV(1)]}

MessageResponses(channel_id) ==
    IF channel_id.t = "int"
    THEN {[id |-> StrOf(<<9>>), channel_id |-> StrOf(Digits(channel_id.n))]}
    ELSE {}

Me ==
    [id |-> StrOf(<<1, 2, 3>>), username |-> StrV("me"),
     global_name |-> StrV("Me"), discriminator |-> StrV("0042"),
     avatar |-> StrV("old_avatar"), banner |-> StrV("old_banner"),
     accent_color |-> IntV(255), banner_color |-> StrV("#0000ff"),
     avatar_decoration |-> StrV("old_deco"), public_flags |-> IntV(64),
     clan |-> DictV(1), verified |-> BoolV(TRUE)]

UserResponses ==
    {[id |-> StrOf(<<1, 2, 3>>), username |-> StrV("al"),
      global_name |-> None, discriminator |-> StrV("0")],
     [id |-> StrOf(<<0, 5>>), username |-> StrV("srv"),
      global_name |-> StrV("Al"), discriminator |-> StrV("1234"),
      avatar |-> StrV("new_avatar"), verified |-> BoolV(FALSE)]}

EditArgs ==
    {<<MISSING, MISSING, MISSING>>,
     <<StrV("al"), None, BytesV(<<255, 216>>)>>}

Init ==
    /\ objs = <<UserClientInit(Me)>>
    /\ born = <<[snap |-> UserClientInit(Me), data |-> Me]>>
    /\ calls = <<>>
    /\ tasks = <<>>

Waiting(c, op, pc) ==
    /\ c \in DOMAIN calls
    /\ calls[c].op = op
    /\ calls[c].pc = pc

(***************************************************************************)
(* send                                                                    *)
(***************************************************************************)
CallSend(limit, o, channel_id, delete_after) ==
    /\ Len(calls) < limit
    /\ o \in DOMAIN objs
    /\ LET call == NewCall("send", o,
                     Args(channel_id, delete_after, MISSING, MISSING, MISSING))
       IN  calls' = Append(calls,
                IF NeedsDm(channel_id)
                THEN [call EXCEPT !.pc = "dm_wait",
                                  !.log = <<DmRequest(objs[o])>>]
                ELSE [call EXCEPT !.pc = "msg_wait",
                                  !.log = <<MessageRequest(channel_id)>>])
    /\ UNCHANGED <<objs, born, tasks>>

SendDmReturns(c, resp) ==
    /\ Waiting(c, "send", "dm_wait")
    /\ LET fetch_channel == DMChannelInit(resp)
           channel_id == IntV(fetch_channel.n)
       IN  calls' = [calls EXCEPT ![c] =
                [@ EXCEPT !.channel_id = channel_id,
                          !.pc = "msg_wait",
                          !.log = @ \o <<Ok(resp), MessageRequest(channel_id)>>]]
    /\ UNCHANGED <<objs, born, tasks>>

SendMsgReturns(c, resp) ==
    /\ Waiting(c, "send", "msg_wait")
    /\ LET _msg == MessageInit(resp)
           delete_after == calls[c].args.delete_after
           deletion == IF delete_after # None
                       THEN MessageDelete(c, _msg, float(delete_after))
                       ELSE [spawn |-> <<>>, blocks |-> FALSE]
       IN  /\ calls' = [calls EXCEPT ![c] =
                    [@ EXCEPT !.log = Append(@, Ok(resp)),
                              !.pc = IF deletion.blocks
                                     THEN "delete_wait" ELSE "done",
                              !.ret = IF deletion.blocks THEN NoRet ELSE _msg]]
           /\ tasks' = tasks \o deletion.spawn
    /\ UNCHANGED <<objs, born>>

(***************************************************************************)
(* create_dm, fetch, edit                                                  *)
(***************************************************************************)
CallCreateDm(limit, o) ==
    /\ Len(calls) < limit
    /\ o \in DOMAIN objs
    /\ calls' = Append(calls,
            [NewCall("create_dm", o, NoArgs) EXCEPT
                !.pc = "dm_wait", !.log = <<DmRequest(objs[o])>>])
    /\ UNCHANGED <<objs, born, tasks>>

CreateDmReturns(c, resp) ==
    /\ Waiting(c, "create_dm", "dm_wait")
    /\ calls' = [calls EXCEPT ![c] =
            [@ EXCEPT !.log = Append(@, Ok(resp)),
                      !.pc = "done",
                      !.ret = DMChannelInit(resp)]]
    /\ UNCHANGED <<objs, born, tasks>>

\* A call returns a new instance: it joins objs, and ret is its place there.
Returns(c, resp, made) ==
    /\ objs' = Append([objs EXCEPT ![calls[c].self] = Receiver(@, made)], made)
    /\ born' = Append(born, [snap |-> made, data |-> resp])
    /\ calls' = [calls EXCEPT ![c] =
            [@ EXCEPT !.log = Append(@, Ok(resp)),
                      !.pc = "done",
                      !.ret = Val("instance", "", Len(objs) + 1, <<>>)]]
    /\ UNCHANGED tasks

CallFetch(limit, o) ==
    /\ Len(calls) < limit
    /\ o \in DOMAIN objs
    /\ calls' = Append(calls,
            [NewCall("fetch", o, NoArgs) EXCEPT
                !.pc = "fetch_wait", !.log = <<FetchRequest(objs[o])>>])
    /\ UNCHANGED <<objs, born, tasks>>

FetchReturns(c, resp) ==
    /\ Waiting(c, "fetch", "fetch_wait")
    /\ Returns(c, resp, UserInit(resp))

CallEdit(limit, o, username, avatar, banner) ==
    /\ Len(calls) < limit
    /\ o \in DOMAIN objs
    /\ objs[o].cls = "UserClient"
    /\ LET payload == EditPayload(username, avatar, banner)
       IN  calls' = Append(calls,
                [NewCall("edit", o, Args(MISSING, None, username, avatar, banner))
                    EXCEPT !.pc = "edit_wait", !.log = <<EditRequest(payload)>>])
    /\ UNCHANGED <<objs, born, tasks>>

EditReturns(c, resp) ==
    /\ Waiting(c, "edit", "edit_wait")
    /\ Returns(c, resp,
               EditResult(objs[calls[c].self], calls[c].log[1].body, resp))

\* query() raises: the exception leaves the awaiting coroutine as it came.
QueryRaises(c, err) ==
    /\ c \in DOMAIN calls
    /\ calls[c].pc \in {"dm_wait", "msg_wait", "fetch_wait", "edit_wait"}
    /\ calls' = [calls EXCEPT ![c] = Raise(@, err)]
    /\ UNCHANGED <<objs, born, tasks>>

(***************************************************************************)
(* The deferred deletion                                                   *)
(***************************************************************************)
DeletionWakes(k) ==
    /\ k \in DOMAIN tasks
    /\ tasks[k].st = "sleeping"
    /\ tasks' = [tasks EXCEPT ![k] =
            [@ EXCEPT !.st = "deleting",
                      !.log = <<DeleteRequest(tasks[k].msg)>>]]
    /\ UNCHANGED <<objs, born, calls>>

DeletionReturns(k) ==
    /\ k \in DOMAIN tasks
    /\ tasks[k].st = "deleting"
    /\ tasks' = [tasks EXCEPT ![k] =
            [@ EXCEPT !.st = "deleted", !.log = Append(@, Ok(EmptyDict))]]
    /\ UNCHANGED <<objs, born, calls>>

DeletionRaises(k, err) ==
    /\ k \in DOMAIN tasks
    /\ tasks[k].st = "deleting"
    /\ tasks' = [tasks EXCEPT ![k] =
            [@ EXCEPT !.st = "failed", !.log = Append(@, Fail(err))]]
    /\ calls' = [calls EXCEPT ![tasks[k].call] = DeleteFailed(@, err)]
    /\ UNCHANGED <<objs, born>>

(***************************************************************************)
(* The program: callers start calls, the collaborator answers them.        *)
(***************************************************************************)
SendStarts ==
    \E o \in DOMAIN objs, channel_id \in ChannelIdArgs,
       delete_after \in DeleteAfterArgs :
        CallSend(MaxCalls, o, channel_id, delete_after)
SendGetsChannel ==
    \E c \in DOMAIN calls, resp \in DmResponses : SendDmReturns(c, resp)
SendGetsMessage ==
    \E c \in DOMAIN calls :
        \E resp \in MessageResponses(calls[c].channel_id) :
            SendMsgReturns(c, resp)
CreateDmStarts == \E o \in DOMAIN objs : CallCreateDm(MaxCalls, o)
CreateDmEnds ==
    \E c \in DOMAIN calls, resp \in DmResponses : CreateDmReturns(c, resp)
FetchStarts == \E o \in DOMAIN objs : CallFetch(MaxCalls, o)
FetchEnds ==
    \E c \in DOMAIN calls, resp \in UserResponses : FetchReturns(c, resp)
EditStarts ==
    \E o \in DOMAIN objs, a \in EditArgs :
        CallEdit(MaxCalls, o, a[1], a[2], a[3])
EditEnds ==
    \E c \in DOMAIN calls, resp \in UserResponses : EditReturns(c, resp)
QueryFails == \E c \in DOMAIN calls, err \in Errors : QueryRaises(c, err)
DeletionStarts == \E k \in DOMAIN tasks : DeletionWakes(k)
DeletionEnds == \E k \in DOMAIN tasks : DeletionReturns(k)
DeletionFails ==
    \E k \in DOMAIN tasks, err \in Errors : DeletionRaises(k, err)

Next ==
    \/ SendStarts
    \/ SendGetsChannel
    \/ SendGetsMessage
    \/ CreateDmStarts
    \/ CreateDmEnds
    \/ FetchStarts
    \/ FetchEnds
    \/ EditStarts
    \/ EditEnds
    \/ QueryFails
    \/ DeletionStarts
    \/ DeletionEnds
    \/ DeletionFails

Spec == Init /\ [][Next]_vars

(***************************************************************************)
(* edit alone, over every combination of its three arguments.              *)
(***************************************************************************)
UsernameArgs == {MISSING, None, StrV(""), StrV("al")}
ImageArgs ==
    {MISSING, None, BytesV(<<>>), BytesV(<<71>>), BytesV(<<137, 80>>),
     BytesV(<<255, 216, 255>>), BytesV(<<0, 0, 1, 0>>)}

EditStartsAny ==
    \E username \in UsernameArgs, avatar \in ImageArgs, banner \in ImageArgs :
        CallEdit(1, 1, username, avatar, banner)

NextEdit ==
    \/ EditStartsAny
    \/ EditEnds
    \/ QueryFails

SpecEdit == Init /\ [][NextEdit]_vars

(***************************************************************************)
(* Parsing alone: one fetch or one edit, answered with any record of       *)
(* AllRecords.  Every optional key is absent, null, falsy or truthy.       *)
(***************************************************************************)
Absent == Val("absent key", "", 0, <<>>)

Choices ==
    [avatar : {Absent, None, StrV(""), StrV("a_hash")},
     banner : {Absent, None, StrV("b_hash")},
     accent_color : {Absent, IntV(0), IntV(255)},
     banner_color : {Absent, None, StrV("#ff0000")},
     avatar_decoration : {Absent, None, StrV("deco")},
     public_flags : {Absent, IntV(0), IntV(64)},
     global_name : {Absent, None, StrV(""), StrV("Al")},
     discriminator : {Absent, None, StrV(""), StrV("0"), StrV("1234")},
     clan : {Absent, None, DictV(0), DictV(1)}]

Record(ch) ==
    [k \in {"id", "username"} \cup {f \in DOMAIN ch : ch[f] # Absent} |->
        CASE k = "id" -> StrOf(<<7, 7>>)
          [] k = "username" -> StrV("al")
          [] OTHER -> ch[k]]

AllRecords == {Record(ch) : ch \in Choices}

ParseFetchStarts == CallFetch(1, 1)
ParseFetchEnds ==
    \E c \in DOMAIN calls :
        /\ Waiting(c, "fetch", "fetch_wait")
        /\ \E resp \in AllRecords : FetchReturns(c, resp)
ParseEditStarts == CallEdit(1, 1, MISSING, MISSING, MISSING)
ParseEditEnds ==
    \E c \in DOMAIN calls :
        /\ Waiting(c, "edit", "edit_wait")
        /\ \E resp \in AllRecords : EditReturns(c, resp)

NextParse ==
    \/ ParseFetchStarts
    \/ ParseFetchEnds
    \/ ParseEditStarts
    \/ ParseEditEnds
    \/ QueryFails

SpecParse == Init /\ [][NextParse]_vars

(***************************************************************************)
(* The claims.                                                             *)
(***************************************************************************)
IsDmReq(e) == e.ev = "req" /\ e.route = "/users/@me/channels"
IsMsgReq(e) == e.ev = "req" /\ e.route = "/channels/{channel_id}/messages"
CallsOf(op) == {c \in DOMAIN calls : calls[c].op = op}
RequestsIn(log) == {i \in DOMAIN log : log[i].ev = "req"}

\* C1: a send issues a channel-creation request iff no channel_id was
\* supplied; the message request is issued only after that request has
\* returned, and targets the id of the channel it returned; with a
\* channel_id supplied the message request targets exactly that id.
C1_SendResolvesChannel ==
    \A c \in CallsOf("send") :
        LET log == calls[c].log
            supplied == calls[c].args.channel_id
        IN  /\ (\E i \in DOMAIN log : IsDmReq(log[i])) <=> supplied = MISSING
            /\ \A j \in DOMAIN log :
                    IsMsgReq(log[j]) =>
                        IF supplied = MISSING
                        THEN \E i \in 1..(j - 2) :
                                /\ IsDmReq(log[i])
                                /\ log[i + 1].ev = "ok"
                                /\ log[j].target = IntV(int(log[i + 1].resp["id"]))
                        ELSE log[j].target = supplied

C1_Witness ==
    \E c \in CallsOf("send") :
        /\ calls[c].args.channel_id = MISSING
        /\ Len(calls[c].log) >= 3
        /\ IsMsgReq(calls[c].log[3])
        /\ calls[c].log[3].target = IntV(42)

\* C2: when the deferred deletion of a sent message has failed, the send
\* that asked for it has returned the sent message and carries no error.
C2_DeletionFailureNotSurfaced ==
    \A k \in DOMAIN tasks :
        tasks[k].st = "failed" =>
            /\ calls[tasks[k].call].pc = "done"
            /\ calls[tasks[k].call].error = ""
            /\ calls[tasks[k].call].ret = tasks[k].msg

C2_Witness ==
    \E k \in DOMAIN tasks :
        /\ tasks[k].st = "failed"
        /\ tasks[k].log[Len(tasks[k].log)].ev = "fail"
        /\ calls[tasks[k].call].args.delete_after # None
        /\ calls[tasks[k].call].pc = "done"

\* C3: a send whose message request has returned has itself returned the
\* sent message, whether or not delete_after was given and whatever the
\* deferred deletion is doing: still sleeping, deleting, or finished.
C3_SendDoesNotWaitForDeletion ==
    /\ \A c \in CallsOf("send") :
            LET log == calls[c].log
            IN  (Len(log) >= 2 /\ log[Len(log)].ev = "ok"
                    /\ IsMsgReq(log[Len(log) - 1])) =>
                    /\ calls[c].pc = "done"
                    /\ calls[c].ret = MessageInit(log[Len(log)].resp)
                    /\ calls[c].args.delete_after # None =>
                            \E k \in DOMAIN tasks : tasks[k].call = c
    /\ \A k \in DOMAIN tasks :
            /\ calls[tasks[k].call].pc = "done"
            /\ calls[tasks[k].call].ret = tasks[k].msg

C3_Witness ==
    \E k \in DOMAIN tasks :
        /\ tasks[k].st = "sleeping"
        /\ tasks[k].delay = FloatV(2)
        /\ calls[tasks[k].call].pc = "done"
        /\ calls[tasks[k].call].ret = tasks[k].msg

\* C4: a failure of query reaches the caller unchanged; the call returns
\* nothing, makes no instance and issues no later request; a send whose
\* channel-creation request failed issues no message request and spawns
\* no deletion.
C4_FailurePropagates ==
    /\ \A c \in DOMAIN calls :
            LET log == calls[c].log
            IN  /\ \A i \in DOMAIN log :
                        log[i].ev = "fail" =>
                            /\ i = Len(log)
                            /\ calls[c].pc = "raised"
                            /\ calls[c].error = log[i].err
                /\ calls[c].pc = "raised" =>
                        /\ log[Len(log)].ev = "fail"
                        /\ calls[c].error \in Errors
                        /\ calls[c].ret = NoRet
                        /\ \A k \in DOMAIN tasks : tasks[k].call # c
                        /\ IsDmReq(log[Len(log) - 1]) =>
                                \A i \in DOMAIN log : ~IsMsgReq(log[i])
    /\ Len(objs) = 1 + Cardinality({c \in DOMAIN calls :
                                        calls[c].ret.t = "instance"})

C4_Witness ==
    \E c \in CallsOf("send") :
        /\ calls[c].args.channel_id = MISSING
        /\ calls[c].args.delete_after # None
        /\ calls[c].pc = "raised"
        /\ calls[c].error = "Forbidden"
        /\ Len(calls[c].log) = 2

\* Base64 text: groups of four characters, with padding only at the end.
IsBase64(chars) ==
    /\ Len(chars) % 4 = 0
    /\ \A i \in DOMAIN chars :
            /\ chars[i] \in 0..Pad
            /\ chars[i] = Pad => i > Len(chars) - 2 /\ chars[Len(chars)] = Pad

\* C5: in edit's payload a key is present iff its argument was given; a
\* given username is sent as is; an avatar or banner given as None is sent
\* as null under its key; image bytes are sent as base64 text that decodes
\* to the bytes given.
C5_EditPayloadTriState ==
    \A c \in CallsOf("edit") :
        LET a == calls[c].args
            payload == calls[c].log[1].body
        IN  /\ \A f \in {"username", "avatar", "banner"} :
                    f \in DOMAIN payload <=> a[f] # MISSING
            /\ a.username # MISSING => payload["username"] = a.username
            /\ \A f \in {"avatar", "banner"} :
                    /\ a[f] = None => f \in DOMAIN payload /\ payload[f] = None
                    /\ a[f].t = "bytes" =>
                            /\ payload[f].t = "str"
                            /\ IsBase64(payload[f].q)
                            /\ B64Decode(payload[f].q) = a[f].q

C5_Witness ==
    \E c \in CallsOf("edit") :
        /\ calls[c].args.username = MISSING
        /\ calls[c].args.avatar = None
        /\ calls[c].args.banner = BytesV(<<137, 80>>)
        /\ calls[c].log[1].method = "PATCH"
        /\ DOMAIN calls[c].log[1].body = {"avatar", "banner"}
        /\ calls[c].log[1].body["avatar"] = None
        /\ calls[c].log[1].body["banner"] = StrOf(<<34, 21, 0, Pad>>)

\* C6: every edit, with an empty payload too, issues exactly one request,
\* the PATCH of /users/@me, and what it returns is a new UserClient whose
\* fields come from the response record alone.
C6_EditReturnsServerRecord ==
    \A c \in CallsOf("edit") :
        LET log == calls[c].log
        IN  /\ RequestsIn(log) = {1}
            /\ log[1].method = "PATCH"
            /\ log[1].route = "/users/@me"
            /\ calls[c].pc = "done" =>
                    LET made == objs[calls[c].ret.n]
                        resp == log[2].resp
                    IN  /\ log[2].ev = "ok"
                        /\ calls[c].ret.n # calls[c].self
                        /\ made = UserClientInit(resp)
                        /\ made.cls = "UserClient"
                        /\ made.id = int(resp["id"])
                        /\ made.name = resp["username"]
                        /\ made.avatar # None => "avatar" \in DOMAIN resp

C6_Witness ==
    \E c \in CallsOf("edit") :
        /\ calls[c].log[1].body = EmptyDict
        /\ calls[c].pc = "done"
        /\ objs[calls[c].ret.n].name = StrV("srv")
        /\ objs[calls[c].self].name = StrV("me")
        /\ objs[calls[c].ret.n].banner = None
        /\ objs[calls[c].self].banner # None

\* C7: every instance has the id and the fields it was constructed with,
\* whatever calls were made on it or on other instances since.
C7_ReceiverNeverMutated ==
    /\ Len(born) = Len(objs)
    /\ \A i \in DOMAIN objs : objs[i] = born[i].snap

C7_Witness ==
    \E c \in CallsOf("edit"), d \in CallsOf("fetch") :
        /\ calls[c].self = calls[d].self
        /\ calls[c].pc = "done"
        /\ calls[d].pc = "done"
        /\ objs[calls[d].ret.n].id # objs[calls[d].self].id
        /\ objs[calls[c].ret.n].name # objs[calls[c].self].name

\* The optional fields of a User and the record keys they are parsed from.
KeyOf ==
    [global_name |-> "global_name", discriminator |-> "discriminator",
     avatar |-> "avatar", banner |-> "banner",
     accent_colour |-> "accent_color", banner_colour |-> "banner_color",
     avatar_decoration |-> "avatar_decoration",
     public_flags |-> "public_flags", clan |-> "clan"]

WrappedFields ==
    {"avatar", "banner", "accent_colour", "banner_colour",
     "avatar_decoration", "public_flags"}

\* C8, as stated: each of the nine optional fields is populated only if its
\* key is present and truthy in the record, and is None when the key is
\* absent or falsy.
C8_OnePolicyForEveryField ==
    \A i \in DOMAIN objs :
        \A f \in DOMAIN KeyOf :
            ~Truthy(Get(born[i].data, KeyOf[f], None)) => objs[i][f] = None

\* C8, amended: avatar, banner, accent colour, banner colour, avatar
\* decoration and public flags are populated (from the record's value) iff
\* their key is present and truthy, and None otherwise; global_name and clan
\* hold the record's value as it is, falsy or not, and None when the key is
\* absent; discriminator likewise, except that "0" gives None; a key absent
\* from the record gives None, whatever the receiver of the call held.
C8_PolicyPerField ==
    \A i \in DOMAIN objs :
        LET data == born[i].data
            u == objs[i]
        IN  /\ \A f \in WrappedFields :
                    IF Truthy(Get(data, KeyOf[f], None))
                    THEN /\ u[f] # None
                         /\ u[f].s = data[KeyOf[f]].s
                         /\ f \in {"accent_colour", "public_flags"} =>
                                u[f].n = data[KeyOf[f]].n
                    ELSE u[f] = None
            /\ u.global_name = Get(data, "global_name", None)
            /\ u.clan = Get(data, "clan", None)
            /\ u.discriminator =
                    IF Get(data, "discriminator", None) = StrV("0")
                    THEN None ELSE Get(data, "discriminator", None)
            /\ \A f \in DOMAIN KeyOf :
                    KeyOf[f] \notin DOMAIN data => u[f] = None

C8_Witness ==
    \E c \in DOMAIN calls :
        /\ calls[c].pc = "done"
        /\ LET u == objs[calls[c].ret.n]
               data == born[calls[c].ret.n].data
               self == objs[calls[c].self]
           IN  /\ Get(data, "global_name", Absent) = StrV("")
               /\ u.global_name = StrV("")
               /\ Get(data, "clan", Absent) = DictV(0)
               /\ u.clan = DictV(0)
               /\ "avatar" \notin DOMAIN data
               /\ u.avatar = None
               /\ self.avatar # None
               /\ Get(data, "banner", Absent) = StrV("b_hash")
               /\ u.banner.s = "b_hash"
               /\ Get(data, "accent_color", Absent) = IntV(0)
               /\ u.accent_colour = None

\* C9: no instance has the discriminator "0": a record's "0" gives None,
\* and any other non-empty discriminator is kept as it is.
C9_DiscriminatorZeroIsNone ==
    \A i \in DOMAIN objs :
        LET d == Get(born[i].data, "discriminator", None)
        IN  /\ objs[i].discriminator # StrV("0")
            /\ d = StrV("0") => objs[i].discriminator = None
            /\ (d.t = "str" /\ Truthy(d) /\ d # StrV("0")) =>
                    objs[i].discriminator = d

C9_Witness ==
    \E c \in CallsOf("edit"), i \in DOMAIN objs :
        /\ calls[c].pc = "done"
        /\ calls[c].ret.n = i
        /\ Get(born[i].data, "discriminator", Absent) = StrV("0")
        /\ objs[i].discriminator = None
        /\ objs[calls[c].self].discriminator = StrV("0042")

\* C10, as stated: display_name is the username when global_name is None
\* and is global_name whenever global_name is not None.
C10_DisplayNameWhenSet ==
    \A i \in DOMAIN objs :
        IF objs[i].global_name = None
        THEN display_name(objs[i]) = objs[i].name
        ELSE display_name(objs[i]) = objs[i].global_name

\* C10, amended: display_name is global_name when global_name is a
\* non-empty string, and the username when global_name is None or empty.
C10_DisplayNameWhenNonEmpty ==
    \A i \in DOMAIN objs :
        IF objs[i].global_name \notin {None, StrV("")}
        THEN display_name(objs[i]) = objs[i].global_name
        ELSE display_name(objs[i]) = objs[i].name

C10_Witness ==
    \E i, j \in DOMAIN objs :
        /\ Get(born[i].data, "global_name", Absent) = StrV("Al")
        /\ display_name(objs[i]) = StrV("Al")
        /\ objs[i].name = StrV("al")
        /\ objs[j].global_name = StrV("Me")
        /\ display_name(objs[j]) = StrV("Me")

====
